---------------------------- MODULE Spec2Model ----------------------------
(***************************************************************************)
(* The Streamlit dashboard script strmlit-code/app.py as a state machine.  *)
(* One run of the script (one interaction cycle) executes the sections of  *)
(* the file top to bottom; pc is the section the run is about to execute.  *)
(*                                                                         *)
(* Strings are the script's strings, with one transliteration: the en dash *)
(* of "(0-1)" is written as an ASCII hyphen (the parser accepts ASCII      *)
(* only; no string of the script holds "0-1" with a hyphen).               *)
(***************************************************************************)
EXTENDS Integers, Sequences, FiniteSets, TLC

VARIABLES
    pc,               \* the section of app.py the run executes next
    uploaded_file,    \* st.sidebar.file_uploader's value (line 39)
    data,             \* line 45: the loaded DataFrame, or None
    data_load_error,  \* line 46: str(e) of a failed load, or None
    rows,             \* line 232: the definitions table built so far
    plot_type,        \* line 280
    x_col,            \* line 285
    y_col,            \* line 291
    color_col,        \* line 301
    filter_col,       \* line 313
    selection,        \* selected_range (line 325) or selected_vals (line 342)
    filtered_data,    \* line 319
    fig,              \* line 357
    shown             \* what the run has put on the page, in order

vars == <<pc, uploaded_file, data, data_load_error, rows, plot_type, x_col,
          y_col, color_col, filter_col, selection, filtered_data, fig, shown>>

(***************************************************************************)
(* Bounds of the model.                                                    *)
(***************************************************************************)
MaxRows == 2

(***************************************************************************)
(* Python's None, where the script holds a string or None.                 *)
(***************************************************************************)
None == "<None>"

(***************************************************************************)
(* The static dictionaries (lines 71-199).                                 *)
(***************************************************************************)
base_definitions ==
    "STATEFP" :> "State FIPS code (2-digit code identifying the state)."
 @@ "COUNTYFP" :> "County FIPS code (3-digit code identifying the county)."
 @@ "TRACTCE" :> "Census tract code (6-digit identifier within the county)."
 @@ "AFFGEOID" :> "Full Census geographic identifier used by the Census API."
 @@ "GEOID" :> "Full Census tract ID (STATEFP + COUNTYFP + TRACTCE)."
 @@ "GEOID_2020" :> "2020 full Census tract ID."
 @@ "COUNTY" :> "County name."
 @@ "StateDesc" :> "State name (New Mexico)."
 @@ "STATEABBR" :> "State abbreviation (NM)."
 @@ "LOCATION" :> "Text description of the census tract location."
 @@ "SPL_EJI" :> "State percentile ranking for the overall Environmental Justice Index (higher = more burdened)."
 @@ "RPL_EJI" :> "National percentile ranking for the overall Environmental Justice Index (higher = more burdened)."
 @@ "SPL_SER" :> "State percentile ranking for combined social and environmental risk."
 @@ "SPL_EJI_CBM" :> "State percentile for cumulative EJ burden (combined)."
 @@ "RPL_EJI_CBM" :> "National percentile for cumulative EJ burden (combined)."
 @@ "SPL_SVM" :> "State percentile for overall social vulnerability metrics domain."
 @@ "RPL_SVM" :> "National percentile for overall social vulnerability metrics domain."
 @@ "SPL_SVM_DOM1" :> "State percentile for Social Vulnerability Domain 1 (e.g., socioeconomic)."
 @@ "SPL_SVM_DOM2" :> "State percentile for Social Vulnerability Domain 2 (e.g., household composition)."
 @@ "SPL_SVM_DOM3" :> "State percentile for Social Vulnerability Domain 3 (e.g., minority status & language)."
 @@ "SPL_SVM_DOM4" :> "State percentile for Social Vulnerability Domain 4 (e.g., housing & transportation)."
 @@ "SPL_EBM" :> "State percentile for overall environmental burden metrics domain."
 @@ "RPL_EBM" :> "National percentile for overall environmental burden metrics domain."
 @@ "SPL_EBM_DOM1" :> "State percentile for Environmental Domain 1 (e.g., air pollution)."
 @@ "SPL_EBM_DOM2" :> "State percentile for Environmental Domain 2 (e.g., water or waste facilities)."
 @@ "SPL_EBM_DOM3" :> "State percentile for Environmental Domain 3."
 @@ "SPL_EBM_DOM4" :> "State percentile for Environmental Domain 4."
 @@ "SPL_EBM_DOM5" :> "State percentile for Environmental Domain 5."
 @@ "SPL_CBM" :> "State percentile for overall cumulative burden metrics domain."
 @@ "RPL_CBM" :> "National percentile for overall cumulative burden metrics domain."
 @@ "SPL_CBM_DOM1" :> "State percentile for Cumulative Burden Domain 1."
 @@ "SPL_CBM_DOM2" :> "State percentile for Cumulative Burden Domain 2."
 @@ "SPL_CBM_DOM3" :> "State percentile for Cumulative Burden Domain 3."
 @@ "RPL_CBM_DOM1" :> "National percentile for Cumulative Burden Domain 1."
 @@ "RPL_CBM_DOM2" :> "National percentile for Cumulative Burden Domain 2."
 @@ "RPL_CBM_DOM3" :> "National percentile for Cumulative Burden Domain 3."
 @@ "E_TOTPOP" :> "Estimated total population of the census tract."
 @@ "M_TOTPOP" :> "Margin of error for total population."
 @@ "E_DAYPOP" :> "Estimated daytime population (people present during the day)."
 @@ "E_MINRTY" :> "Estimated number of minority (non-white) residents."
 @@ "EPL_MINRTY" :> "Percentile rank of minority population proportion (0-1 scale)."
 @@ "E_POV200" :> "Estimated number of people at or below 200% of the poverty level."
 @@ "EPL_POV200" :> "Percentile rank of population at/under 200% poverty."
 @@ "E_NOHSDP" :> "Estimated number of adults (25+) without a high school diploma."
 @@ "EPL_NOHSDP" :> "Percentile rank for low educational attainment."
 @@ "E_UNEMP" :> "Estimated number of unemployed individuals (16+ in labor force)."
 @@ "EPL_UNEMP" :> "Percentile rank for unemployment."
 @@ "E_RENTER" :> "Estimated number of renter-occupied housing units."
 @@ "EPL_RENTER" :> "Percentile rank for renter housing."
 @@ "E_HOUBDN" :> "Estimated number of households severely burdened by housing costs."
 @@ "EPL_HOUBDN" :> "Percentile rank for housing cost burden."
 @@ "E_UNINSUR" :> "Estimated number of people without health insurance."
 @@ "EPL_UNINSUR" :> "Percentile rank for lack of health insurance."
 @@ "E_NOINT" :> "Estimated number of households without internet access."
 @@ "EPL_NOINT" :> "Percentile rank for lack of internet access."
 @@ "E_AGE65" :> "Estimated number of people age 65 or older."
 @@ "EPL_AGE65" :> "Percentile rank for older adult population."
 @@ "E_AGE17" :> "Estimated number of people age 17 or younger."
 @@ "EPL_AGE17" :> "Percentile rank for child/youth population."
 @@ "E_DISABL" :> "Estimated number of people with a disability."
 @@ "EPL_DISABL" :> "Percentile rank for disability prevalence."
 @@ "E_LIMENG" :> "Estimated number of people who speak English less than 'very well'."
 @@ "EPL_LIMENG" :> "Percentile rank for limited English proficiency."
 @@ "E_MOBILE" :> "Estimated number of people living in mobile homes."
 @@ "EPL_MOBILE" :> "Percentile rank for mobile home housing."
 @@ "E_GROUPQ" :> "Estimated number of people in group quarters (e.g., dorms, prisons)."
 @@ "EPL_GROUPQ" :> "Percentile rank for group quarters population."
 @@ "AFAM" :> "Percent of population that is African American."
 @@ "E_AFAM" :> "Estimated number of African American residents."
 @@ "HISP" :> "Percent of population that is Hispanic/Latino."
 @@ "E_HISP" :> "Estimated number of Hispanic/Latino residents."
 @@ "ASIAN" :> "Percent of population that is Asian."
 @@ "E_ASIAN" :> "Estimated number of Asian residents."
 @@ "AIAN" :> "Percent of population that is American Indian/Alaska Native."
 @@ "E_AIAN" :> "Estimated number of American Indian/Alaska Native residents."
 @@ "NHPI" :> "Percent of population that is Native Hawaiian or Pacific Islander."
 @@ "E_NHPI" :> "Estimated number of Native Hawaiian/Pacific Islander residents."
 @@ "TWOMORE" :> "Percent of population identifying with two or more races."
 @@ "E_TWOMORE" :> "Estimated number of residents of two or more races."
 @@ "OTHERRACE" :> "Percent of population identifying as some other race."
 @@ "E_OTHERRACE" :> "Estimated number of residents of some other race."
 @@ "Tribe_PCT_Tract" :> "Percent of the tract area overlapping tribal lands."
 @@ "Tribe_Names" :> "Names of tribes associated with lands in or near the tract."
 @@ "Tribe_Flag" :> "Indicates whether the tract overlaps or is associated with tribal areas (1 = yes)."

suffix_descriptions ==
    "MINRTY" :> "minority population (non-white)."
 @@ "POV200" :> "population at or below 200% of the poverty level."
 @@ "NOHSDP" :> "adults without a high school diploma."
 @@ "UNEMP" :> "unemployed individuals (16+ in the labor force)."
 @@ "RENTER" :> "renter-occupied housing units."
 @@ "HOUBDN" :> "households with severe housing cost burden."
 @@ "UNINSUR" :> "people without health insurance."
 @@ "NOINT" :> "households without internet access."
 @@ "MOBILE" :> "people living in mobile homes."
 @@ "GROUPQ" :> "people living in group quarters."
 @@ "AGE65" :> "people age 65 or older."
 @@ "AGE17" :> "people age 17 or younger."
 @@ "DISABL" :> "people with a disability."
 @@ "LIMENG" :> "people who speak English less than very well."
 @@ "RFLD" :> "residential flooding risk."
 @@ "SWND" :> "strong wind hazard risk."
 @@ "TRND" :> "tornado hazard risk."
 @@ "ASTHMA" :> "asthma-related health burden."
 @@ "CANCER" :> "cancer-related health burden."
 @@ "CHD" :> "coronary heart disease burden."
 @@ "MHLTH" :> "mental health-related burden."
 @@ "DIABETES" :> "diabetes-related health burden."

DictHas(d, k) == k \in DOMAIN d

\* dict.get(k, default)
DictGet(d, k, default) == IF k \in DOMAIN d THEN d[k] ELSE default

\* line 207
prefixes == <<"EPL_", "E_", "RPL_", "F_", "SPL_">>

\* line 224
Fallback == "Not yet defined (dataset-specific indicator)."

\* A startswith that looks at the first character only.
StartsWithFirstChar(s, prefix) ==
    Len(s) >= 1 /\ SubSeq(s, 1, 1) = SubSeq(prefix, 1, 1)

\* str.startswith
StartsWith(s, prefix) ==
    Len(s) >= Len(prefix) /\ SubSeq(s, 1, Len(prefix)) = prefix

\* A slice that starts one character early: col[len(prefix) - 1:].
StripPrefixKeepingLast(s, prefix) == SubSeq(s, Len(prefix), Len(s))

\* col[len(prefix):]
StripPrefix(s, prefix) == SubSeq(s, Len(prefix) + 1, Len(s))

\* The loop body's chain of returns (lines 212-221); None when no test of
\* the chain matches the prefix and the loop goes on.
PrefixSentence(prefix, base_text) ==
    IF prefix = "E_" THEN "Estimated count related to " \o base_text
    ELSE IF prefix = "EPL_" THEN "Percentile rank (0-1) for " \o base_text
    ELSE IF prefix = "RPL_" THEN "National percentile rank for " \o base_text
    ELSE IF prefix = "F_" THEN "Flag/reliability indicator for " \o base_text
    ELSE IF prefix = "SPL_" THEN "State percentile rank for " \o base_text
    ELSE None

\* Lines 208-224: the loop over a list of prefixes, then the fallback.
RECURSIVE PrefixLoop(_, _)
PrefixLoop(order, col) ==
    IF order = <<>> THEN Fallback
    ELSE LET prefix == Head(order)
         IN  IF StartsWith(col, prefix)
             THEN LET suffix == StripPrefix(col, prefix)
                      base_text == DictGet(suffix_descriptions, suffix, suffix)
                      sentence == PrefixSentence(prefix, base_text)
                  IN  IF sentence # None THEN sentence
                      ELSE PrefixLoop(Tail(order), col)
             ELSE PrefixLoop(Tail(order), col)

\* Lines 201-224 with the list of line 207 as a parameter.
ResolveWithOrder(order, col) ==
    IF DictHas(base_definitions, col) THEN base_definitions[col]
    ELSE PrefixLoop(order, col)

\* get_indicator_definition with the exact match skipped.
PatternOnlyDefinition(col) == PrefixLoop(prefixes, col)

\* get_indicator_definition with the prefix patterns tried before the exact
\* match.
PrefixFirstDefinition(col) ==
    IF \E i \in 1..Len(prefixes) : StartsWith(col, prefixes[i])
    THEN PrefixLoop(prefixes, col)
    ELSE ResolveWithOrder(prefixes, col)

\* Lines 201-224.
get_indicator_definition(col) == ResolveWithOrder(prefixes, col)

(***************************************************************************)
(* DataFrames.  A cell is a number, a string or a missing value (NaN); a   *)
(* DataFrame is its column names and its rows, each row one cell a column. *)
(***************************************************************************)
Num(n) == [kind |-> "num", num |-> n, str |-> ""]
Str(s) == [kind |-> "str", num |-> 0, str |-> s]
NaN == [kind |-> "nan", num |-> 0, str |-> ""]

IsNaN(c) == c.kind = "nan"

\* A comparison that leaves the bound itself out: df[col] > lo.
GeStrict(a, b) == a.kind = "num" /\ b.kind = "num" /\ a.num > b.num

\* The comparisons of a column with a float, one cell: false when either
\* side is NaN (the script compares numeric columns only).
Ge(a, b) == a.kind = "num" /\ b.kind = "num" /\ a.num >= b.num
Le(a, b) == a.kind = "num" /\ b.kind = "num" /\ a.num <= b.num

NumCells == {Num(1), Num(2)}
StrCells == {Str("a"), Str("b")}
Cells == NumCells \cup StrCells \cup {NaN}

DataFrame(columns, table) == [is_none |-> FALSE, columns |-> columns, rows |-> table]

\* data = None (line 45)
NoneData == [is_none |-> TRUE, columns |-> <<>>, rows |-> <<>>]

Range(s) == {s[i] : i \in 1..Len(s)}

ColumnIndex(df, col) == CHOOSE j \in 1..Len(df.columns) : df.columns[j] = col

\* df[col], as the sequence of the column's cells
Column(df, col) == [i \in 1..Len(df.rows) |-> df.rows[i][ColumnIndex(df, col)]]

\* pd.api.types.is_numeric_dtype(df[col]) for a frame read from CSV: a column
\* is parsed as numbers when it has rows and no cell of it is text.
is_numeric_dtype(df, col) ==
    /\ df.rows # <<>>
    /\ \A c \in Range(Column(df, col)) : c.kind # "str"

\* What pd.read_csv can return for a table of `n` rows: every column is
\* numbers and NaN, or text and NaN with at least one text cell.
CsvTables(ncols, n) ==
    {t \in [1..n -> [1..ncols -> Cells]] :
        \A j \in 1..ncols :
            \/ \A i \in 1..n : t[i][j] \in NumCells \cup {NaN}
            \/ /\ \A i \in 1..n : t[i][j] \in StrCells \cup {NaN}
               /\ \E i \in 1..n : t[i][j] \in StrCells}

\* The column names of the frames with varied cells.
SampleColumns == <<"E_TOTPOP", "COUNTY">>

FramesOver(columns) ==
    {DataFrame(columns, t) :
        t \in UNION {CsvTables(Len(columns), n) : n \in 0..MaxRows}}

ValueFrames ==
    UNION {FramesOver(SubSeq(SampleColumns, 1, k)) : k \in 1..Len(SampleColumns)}

\* Suffix tokens outside suffix_descriptions, and names outside every rule.
OtherSuffixes == {"", "XYZ", "PL_UNEMP", "E_MINRTY", "minrty", "EJI_RANK"}
OtherNames == {"RANDOMCOL", "E", "EPL", "e_MINRTY", "M_MINRTY", "FLAG", "_E_X",
               "MINRTY", "EP_UNEMP", "SP_EJI", "OBJECTID", "E-POV200"}

\* The column names the model draws a header from.
NameUniverse ==
    (DOMAIN base_definitions)
    \cup {prefixes[i] \o s : i \in 1..Len(prefixes),
                             s \in (DOMAIN suffix_descriptions) \cup OtherSuffixes}
    \cup OtherNames

\* One-column frames, one for every name of the universe.
NameFrames == {DataFrame(<<c>>, <<<<Num(1)>>>>) : c \in NameUniverse}

Frames == ValueFrames \cup NameFrames

\* str(e) of the exceptions pd.read_csv raises; an exception may have no text.
LoadErrors == {"", "No such file or directory", "Error tokenizing data"}

NoSelection == [kind |-> "none", lo |-> NaN, hi |-> NaN, vals |-> {}]


(***************************************************************************)
(* The plot settings, the filter and the plot (lines 273-475).             *)
(***************************************************************************)
PlotTypes == {"Line", "Scatter", "Bar", "Histogram", "Box"}

\* Line 337: the number of distinct values above which the sidebar warns.
ManyValues == 50

\* Lines 291-299: the values y_col can end with.
YChoices(pt, x, all_cols) ==
    IF pt \in {"Line", "Scatter", "Bar", "Box"}
    THEN LET possible_y_cols == Range(all_cols) \ {x}
         IN  IF possible_y_cols # {} THEN possible_y_cols ELSE {None}
    ELSE {None}

\* Lines 276-307.
PlotSettings ==
    /\ pc = "plot_settings"
    /\ \E pt \in PlotTypes, x \in Range(data.columns),
          color \in {None} \cup Range(data.columns) :
         \E y \in YChoices(pt, x, data.columns) :
            /\ plot_type' = pt
            /\ x_col' = x
            /\ y_col' = y
            /\ color_col' = color
    /\ shown' = Append(shown, "sidebar:Plot Settings")
    /\ pc' = "filter"
    /\ UNCHANGED <<uploaded_file, data, data_load_error, rows, filter_col,
                   selection, filtered_data, fig>>

NumbersOf(df, col) == {c \in Range(Column(df, col)) : c.kind = "num"}

\* float(df[col].min()), float(df[col].max()): NaN is skipped, and the
\* result is NaN when no number is left.
ColMin(df, col) ==
    IF NumbersOf(df, col) = {} THEN NaN
    ELSE CHOOSE m \in NumbersOf(df, col) : \A c \in NumbersOf(df, col) : m.num <= c.num
ColMax(df, col) ==
    IF NumbersOf(df, col) = {} THEN NaN
    ELSE CHOOSE m \in NumbersOf(df, col) : \A c \in NumbersOf(df, col) : m.num >= c.num

RangeSelection(lo, hi) == [kind |-> "range", lo |-> lo, hi |-> hi, vals |-> {}]
ValuesSelection(vals) == [kind |-> "vals", lo |-> NaN, hi |-> NaN, vals |-> vals]

\* Lines 325-330: what the slider can return: (min_val, max_val) until the
\* user moves it, then any lo <= hi between them.
SliderValues(df, col) ==
    {RangeSelection(ColMin(df, col), ColMax(df, col))}
    \cup {RangeSelection(b[1], b[2]) :
            b \in {c \in NumbersOf(df, col) \X NumbersOf(df, col) : c[1].num <= c[2].num}}

\* Line 336: df[col].dropna().unique(); the order sorted() gives the options
\* plays no part in isin.
UniqueVals(df, col) == {c \in Range(Column(df, col)) : ~IsNaN(c)}

\* Lines 342-346: what the multiselect can return: unique_vals until the
\* user changes it, then any subset.
MultiselectValues(df, col) == {ValuesSelection(vals) : vals \in SUBSET UniqueVals(df, col)}

\* An isin that counts a missing value as a member.
IsInOrMissing(c, vals) == c \in vals \/ IsNaN(c)

\* Series.isin, one cell
IsIn(c, vals) == c \in vals

\* Lines 331-334 and 347: the rows the boolean mask keeps.
KeepRows(df, col, sel) ==
    LET j == ColumnIndex(df, col)
        keep(r) == IF sel.kind = "range"
                   THEN Ge(r[j], sel.lo) /\ Le(r[j], sel.hi)
                   ELSE IsIn(r[j], sel.vals)
    IN  DataFrame(df.columns, SelectSeq(df.rows, keep))

\* Lines 312-347.
FilterSection ==
    /\ pc = "filter"
    /\ \E fc \in {"None"} \cup Range(data.columns) :
         /\ filter_col' = fc
         /\ IF fc = "None"
            THEN /\ selection' = NoSelection
                 /\ filtered_data' = data
                 /\ shown' = Append(shown, "sidebar:Filter Data")
            ELSE IF is_numeric_dtype(data, fc)
            THEN \E sel \in SliderValues(data, fc) :
                    /\ selection' = sel
                    /\ filtered_data' = KeepRows(data, fc, sel)
                    /\ shown' = Append(shown, "sidebar:Filter Data")
            ELSE \E sel \in MultiselectValues(data, fc) :
                    /\ selection' = sel
                    /\ filtered_data' = KeepRows(data, fc, sel)
                    /\ shown' = shown \o <<"sidebar:Filter Data">> \o
                          (IF Cardinality(UniqueVals(data, fc)) > ManyValues
                           THEN <<"sidebar:info many unique values">> ELSE <<>>)
    /\ pc' = "plot"
    /\ UNCHANGED <<uploaded_file, data, data_load_error, rows, plot_type, x_col,
                   y_col, color_col, fig>>

\* An emptiness test that looks at the columns only.
NoColumns(df) == df.columns = <<>>

\* DataFrame.empty: an axis of length 0
DataFrameEmpty(df) == df.rows = <<>> \/ df.columns = <<>>

Figure(kind, x, y, color, title, hover, nbins) ==
    [is_none |-> FALSE, kind |-> kind, x |-> x, y |-> y, color |-> color,
     title |-> title, hover |-> hover, nbins |-> nbins]

NoFig == [is_none |-> TRUE, kind |-> None, x |-> None, y |-> None,
          color |-> None, title |-> None, hover |-> <<>>, nbins |-> 0]

\* Lines 361, 373, 386 (st.error) and line 355 (st.warning).
MissingY == "error:Please select a Y-axis column in the sidebar."
NoDataWarning == "warning:No data left after filtering. Adjust filters in the sidebar."

\* The dispatch with Box asking for y as Line, Scatter and Bar do.
BuildChartBoxNeedsY(pt, df, x, y, color) ==
    IF pt \in {"Line", "Scatter", "Bar", "Box"} /\ y = None
    THEN [fig |-> NoFig, messages |-> <<MissingY>>]
    ELSE [fig |-> Figure(pt, x, y, color, pt \o " Plot", <<>>, 0), messages |-> <<>>]

\* Lines 357-412: fig and the messages of the dispatch on plot_type.
BuildChart(pt, df, x, y, color) ==
    IF pt \in {"Line", "Scatter", "Bar"}
    THEN IF y = None
         THEN [fig |-> NoFig, messages |-> <<MissingY>>]
         ELSE [fig |-> Figure(pt, x, y, color, pt \o " Plot: " \o y \o " vs " \o x,
                              IF pt = "Scatter" THEN df.columns ELSE <<>>, 0),
               messages |-> <<>>]
    ELSE IF pt = "Histogram"
    THEN [fig |-> Figure(pt, x, None, color, pt \o " of " \o x, <<>>, 30),
          messages |-> <<>>]
    ELSE IF pt = "Box"
    THEN [fig |-> Figure(pt, x, y, color, pt \o " Plot", <<>>, 0), messages |-> <<>>]
    ELSE [fig |-> NoFig, messages |-> <<>>]

\* Lines 352-415.
PlotSection ==
    /\ pc = "plot"
    /\ IF DataFrameEmpty(filtered_data)
       THEN /\ shown' = shown \o <<"subheader:Interactive Visualization", NoDataWarning>>
            /\ fig' = NoFig
       ELSE LET built == BuildChart(plot_type, filtered_data, x_col, y_col, color_col)
            IN  /\ fig' = built.fig
                /\ shown' = shown \o <<"subheader:Interactive Visualization">>
                                  \o built.messages
                                  \o (IF ~built.fig.is_none THEN <<"plotly_chart">>
                                      ELSE <<>>)
    /\ pc' = "matlab"
    /\ UNCHANGED <<uploaded_file, data, data_load_error, rows, plot_type, x_col,
                   y_col, color_col, filter_col, selection, filtered_data>>

\* Lines 420-475.
MatlabSection ==
    /\ pc = "matlab"
    /\ shown' = shown \o <<"subheader:MATLAB Cleaning Code Used", "expander:MATLAB code">>
    /\ pc' = "done"
    /\ UNCHANGED <<uploaded_file, data, data_load_error, rows, plot_type, x_col,
                   y_col, color_col, filter_col, selection, filtered_data, fig>>

\* The sections from line 273 on, run on any frame read from CSV.
InitPlotSections ==
    /\ pc = "plot_settings"
    /\ uploaded_file = None
    /\ data \in ValueFrames
    /\ data_load_error = None
    /\ rows = <<>>
    /\ plot_type = None
    /\ x_col = None
    /\ y_col = None
    /\ color_col = None
    /\ filter_col = None
    /\ selection = NoSelection
    /\ filtered_data = NoneData
    /\ fig = NoFig
    /\ shown = <<>>

NextPlotSections ==
    \/ PlotSettings
    \/ FilterSection
    \/ PlotSection
    \/ MatlabSection

SpecPlotSections == InitPlotSections /\ [][NextPlotSections]_vars
(***************************************************************************)
(* The run of the script.                                                  *)
(***************************************************************************)
Init ==
    /\ pc = "load"
    /\ uploaded_file \in {None, "upload.csv"}
    /\ data = NoneData
    /\ data_load_error = None
    /\ rows = <<>>
    /\ plot_type = None
    /\ x_col = None
    /\ y_col = None
    /\ color_col = None
    /\ filter_col = None
    /\ selection = NoSelection
    /\ filtered_data = NoneData
    /\ fig = NoFig
    /\ shown = <<"title">>

\* Lines 45-51: load_data under try/except.  pd.read_csv of either source
\* returns a DataFrame or raises.
LoadData ==
    /\ pc = "load"
    /\ \/ \E df \in Frames :
            /\ data' = df
            /\ data_load_error' = None
       \/ \E e \in LoadErrors :
            /\ data' = NoneData
            /\ data_load_error' = e
    /\ pc' = "loaded"
    /\ UNCHANGED <<uploaded_file, rows, plot_type, x_col, y_col, color_col,
                   filter_col, selection, filtered_data, fig, shown>>

\* Lines 53-63 without the st.stop() call.
LoadFailedNoStop ==
    /\ pc = "loaded"
    /\ data.is_none
    /\ shown' = shown \o <<"error:Could not load data">>
                      \o (IF data_load_error # "" THEN <<"expander:error details">>
                          ELSE <<>>)
    /\ pc' = "definitions"
    /\ UNCHANGED <<uploaded_file, data, data_load_error, rows, plot_type, x_col,
                   y_col, color_col, filter_col, selection, filtered_data, fig>>

\* Lines 53-63: data is None: the error, its details when str(e) is not
\* empty, st.stop().
LoadFailed ==
    /\ pc = "loaded"
    /\ data.is_none
    /\ shown' = shown \o <<"error:Could not load data">>
                      \o (IF data_load_error # "" THEN <<"expander:error details">>
                          ELSE <<>>)
    /\ pc' = "stopped"
    /\ UNCHANGED <<uploaded_file, data, data_load_error, rows, plot_type, x_col,
                   y_col, color_col, filter_col, selection, filtered_data, fig>>

\* Lines 53, 68, 228-232: data is not None; the section's headers.
DefinitionsHeader ==
    /\ pc = "loaded"
    /\ ~data.is_none
    /\ shown' = shown \o <<"header:Indicator Definitions",
                           "subheader:All Columns with Definitions">>
    /\ pc' = "definitions"
    /\ UNCHANGED <<uploaded_file, data, data_load_error, rows, plot_type, x_col,
                   y_col, color_col, filter_col, selection, filtered_data, fig>>

\* Lines 234-238: one turn of the loop over col_list = list(data.columns).
DefinitionsRow ==
    /\ pc = "definitions"
    /\ Len(rows) < Len(data.columns)
    /\ LET col == data.columns[Len(rows) + 1]
       IN  rows' = Append(rows, [name |-> col,
                                 definition |-> get_indicator_definition(col)])
    /\ UNCHANGED <<pc, uploaded_file, data, data_load_error, plot_type, x_col,
                   y_col, color_col, filter_col, selection, filtered_data, fig,
                   shown>>

\* Line 240: the loop is over; the table is shown.
DefinitionsTable ==
    /\ pc = "definitions"
    /\ Len(rows) = Len(data.columns)
    /\ shown' = Append(shown, "dataframe:definitions")
    /\ pc' = "overview"
    /\ UNCHANGED <<uploaded_file, data, data_load_error, rows, plot_type, x_col,
                   y_col, color_col, filter_col, selection, filtered_data, fig>>

\* Lines 245-252.
DatasetOverview ==
    /\ pc = "overview"
    /\ shown' = shown \o <<"subheader:Dataset Overview", "write:shape",
                           "dataframe:head", "expander:summary statistics">>
    /\ pc' = "column_info"
    /\ UNCHANGED <<uploaded_file, data, data_load_error, rows, plot_type, x_col,
                   y_col, color_col, filter_col, selection, filtered_data, fig>>

\* Lines 255-261: the comprehension of line 259 reads ABBREV_DEFS, a name the
\* script never binds, once for every column: a NameError, which nothing
\* catches, ends the run.  A frame read from CSV has a column.
ColumnInfo ==
    /\ pc = "column_info"
    /\ IF Len(data.columns) > 0
       THEN /\ shown' = Append(shown, "exception:NameError ABBREV_DEFS")
            /\ pc' = "exception"
       ELSE /\ shown' = Append(shown, "table:column info")
            /\ pc' = "abbreviation_reference"
    /\ UNCHANGED <<uploaded_file, data, data_load_error, rows, plot_type, x_col,
                   y_col, color_col, filter_col, selection, filtered_data, fig>>

Next ==
    \/ LoadData
    \/ LoadFailed
    \/ DefinitionsHeader
    \/ DefinitionsRow
    \/ DefinitionsTable
    \/ DatasetOverview
    \/ ColumnInfo

Spec == Init /\ [][Next]_vars

(***************************************************************************)
(* What a finished run has put on the page.                                *)
(***************************************************************************)
Terminal == {"stopped", "exception", "done"}

Shown(what) == what \in Range(shown)

ChartRendered == Shown("plotly_chart")

ErrorShown == \E i \in 1..Len(shown) : StartsWith(shown[i], "error:")

\* The plot section has run.
PlotSectionRan == pc \in {"matlab", "done"}

(***************************************************************************)
(* C1.  After a successful load the run goes through every section and     *)
(* ends, at "done", with exactly one of: the chart rendered, the           *)
(* missing-axis message, the no-data warning; no section aborts it.        *)
(***************************************************************************)
C1_FullPassAfterLoad ==
    (pc \in Terminal /\ ~data.is_none) =>
        /\ pc = "done"
        /\ Cardinality({o \in {"plotly_chart", MissingY, NoDataWarning} : Shown(o)}) = 1

(***************************************************************************)
(* C2.  As claimed: the definitions table gives E_MINRTY and EPL_UNEMP the *)
(* pattern sentences and RANDOMCOL the fallback.                           *)
(***************************************************************************)
C2_ExamplesAsClaimed ==
    \A i \in 1..Len(rows) :
        /\ rows[i].name = "E_MINRTY" =>
             rows[i].definition = "Estimated count related to minority population (non-white)."
        /\ rows[i].name = "EPL_UNEMP" =>
             rows[i].definition =
                 "Percentile rank (0-1) for unemployed individuals (16+ in the labor force)."
        /\ rows[i].name = "RANDOMCOL" =>
             rows[i].definition = "Not yet defined (dataset-specific indicator)."

(***************************************************************************)
(* C2, amended.  E_MINRTY and EPL_UNEMP are keys of the exact-match table  *)
(* and get its descriptions; RANDOMCOL gets the fallback.                  *)
(***************************************************************************)
C2_ExamplesExactMatch ==
    \A i \in 1..Len(rows) :
        /\ rows[i].name = "E_MINRTY" =>
             rows[i].definition = "Estimated number of minority (non-white) residents."
        /\ rows[i].name = "EPL_UNEMP" =>
             rows[i].definition = "Percentile rank for unemployment."
        /\ rows[i].name = "RANDOMCOL" =>
             rows[i].definition = "Not yet defined (dataset-specific indicator)."

C2_Witness ==
    /\ pc = "exception"
    /\ \E i \in 1..Len(rows) :
         /\ rows[i].name = "E_MINRTY"
         /\ rows[i].definition = "Estimated number of minority (non-white) residents."

(***************************************************************************)
(* C3.  A column whose name is a key of the exact-match table gets exactly *)
(* that key's description, also when the name starts with a recognized     *)
(* prefix.                                                                 *)
(***************************************************************************)
C3_ExactMatchWins ==
    \A i \in 1..Len(rows) :
        rows[i].name \in DOMAIN base_definitions =>
            rows[i].definition = base_definitions[rows[i].name]

C3_Witness ==
    \E i \in 1..Len(rows) :
        /\ rows[i].name = "SPL_EJI_CBM"
        /\ rows[i].definition = "State percentile for cumulative EJ burden (combined)."

(***************************************************************************)
(* C4.  A column named <prefix><suffix>, not a key of the exact-match      *)
(* table, gets the prefix's lead phrase followed by the suffix's meaning   *)
(* when the suffix table has the suffix, and by the suffix itself when it  *)
(* has not.                                                                *)
(***************************************************************************)
LeadPhrase ==
       "E_" :> "Estimated count related to"
    @@ "EPL_" :> "Percentile rank (0-1) for"
    @@ "RPL_" :> "National percentile rank for"
    @@ "F_" :> "Flag/reliability indicator for"
    @@ "SPL_" :> "State percentile rank for"

SuffixTokens == (DOMAIN suffix_descriptions) \cup OtherSuffixes

C4_PrefixPattern ==
    \A i \in 1..Len(rows) : \A p \in DOMAIN LeadPhrase : \A s \in SuffixTokens :
        (rows[i].name = p \o s /\ rows[i].name \notin DOMAIN base_definitions) =>
            rows[i].definition =
                LeadPhrase[p] \o " " \o
                (IF s \in DOMAIN suffix_descriptions THEN suffix_descriptions[s] ELSE s)

C4_Witness ==
    \E i \in 1..Len(rows) :
        /\ rows[i].name = "RPL_ASTHMA"
        /\ rows[i].definition = "National percentile rank for asthma-related health burden."

(***************************************************************************)
(* C10.  No column name starts with two of the five prefixes, and a column *)
(* gets the same description under every order of the prefix list.         *)
(***************************************************************************)
PrefixOrders ==
    {[i \in 1..Len(prefixes) |-> prefixes[f[i]]] :
        f \in {g \in [1..Len(prefixes) -> 1..Len(prefixes)] :
                  \A a, b \in 1..Len(prefixes) : g[a] = g[b] => a = b}}

C10_OrderIndependent ==
    \A i \in 1..Len(rows) :
        /\ Cardinality({p \in Range(prefixes) : StartsWith(rows[i].name, p)}) <= 1
        /\ \A order \in PrefixOrders :
             ResolveWithOrder(order, rows[i].name) = rows[i].definition

C10_Witness ==
    \E i \in 1..Len(rows) :
        /\ rows[i].name = "EPL_XYZ"
        /\ rows[i].definition = "Percentile rank (0-1) for XYZ"
        /\ ResolveWithOrder(<<"E_", "EPL_", "RPL_", "F_", "SPL_">>, rows[i].name)
               = rows[i].definition

(***************************************************************************)
(* C9.  A failed load shows the load error and stops the run: the failure  *)
(* is caught, and no later section runs.                                   *)
(***************************************************************************)
C9_LoadFailureHalts ==
    data.is_none =>
        /\ pc \in {"load", "loaded", "stopped"}
        /\ rows = <<>>
        /\ filtered_data = NoneData
        /\ fig = NoFig
        /\ pc = "stopped" =>
             /\ shown \in {<<"title", "error:Could not load data">>,
                           <<"title", "error:Could not load data",
                             "expander:error details">>}
             /\ data_load_error # None

C9_Witness ==
    /\ pc = "stopped"
    /\ data.is_none
    /\ data_load_error = "No such file or directory"
    /\ Shown("error:Could not load data")

(***************************************************************************)
(* C5.  As claimed: the numeric filter at the slider's default, the        *)
(* column's [min, max], keeps the number of rows.                          *)
(***************************************************************************)
AtDefaultRange ==
    /\ PlotSectionRan \/ pc = "plot"
    /\ selection.kind = "range"
    /\ selection.lo = ColMin(data, filter_col)
    /\ selection.hi = ColMax(data, filter_col)

C5_FullRangeKeepsAllRows ==
    AtDefaultRange => Len(filtered_data.rows) = Len(data.rows)

(***************************************************************************)
(* C5, amended.  The numeric filter at [min, max] keeps exactly the rows   *)
(* whose value in the column is not missing: all rows when the column has  *)
(* no missing value.                                                       *)
(***************************************************************************)
PresentRows(df, col) ==
    SelectSeq(df.rows, LAMBDA r : ~IsNaN(r[ColumnIndex(df, col)]))

C5_FullRangeKeepsPresentRows ==
    AtDefaultRange =>
        /\ filtered_data.rows = PresentRows(data, filter_col)
        /\ (\A c \in Range(Column(data, filter_col)) : ~IsNaN(c)) =>
               Len(filtered_data.rows) = Len(data.rows)

C5_Witness ==
    /\ AtDefaultRange
    /\ Len(data.rows) = 2
    /\ Len(filtered_data.rows) = 1
    /\ IsNaN(data.rows[1][ColumnIndex(data, filter_col)])

(***************************************************************************)
(* C6.  As claimed: the categorical filter at the multiselect's default,   *)
(* all distinct non-missing values, keeps the number of rows.              *)
(***************************************************************************)
AtDefaultValues ==
    /\ PlotSectionRan \/ pc = "plot"
    /\ selection.kind = "vals"
    /\ selection.vals = UniqueVals(data, filter_col)

C6_FullSetKeepsAllRows ==
    AtDefaultValues => Len(filtered_data.rows) = Len(data.rows)

(***************************************************************************)
(* C6, amended.  The categorical filter at the full set keeps exactly the  *)
(* rows whose value in the column is not missing: all rows when the column *)
(* has no missing value.                                                   *)
(***************************************************************************)
C6_FullSetKeepsPresentRows ==
    AtDefaultValues =>
        /\ filtered_data.rows = PresentRows(data, filter_col)
        /\ (\A c \in Range(Column(data, filter_col)) : ~IsNaN(c)) =>
               Len(filtered_data.rows) = Len(data.rows)

C6_Witness ==
    /\ AtDefaultValues
    /\ Len(data.rows) = 2
    /\ Len(filtered_data.rows) = 1
    /\ IsNaN(data.rows[2][ColumnIndex(data, filter_col)])

(***************************************************************************)
(* C7.  When the filtered frame has no rows at the plot section, the       *)
(* no-data warning is shown, no chart is built or rendered, and nothing is *)
(* reported as an error, whatever the plot type, axes and color.           *)
(***************************************************************************)
C7_EmptyGivesWarning ==
    (PlotSectionRan /\ filtered_data.rows = <<>>) =>
        /\ Shown(NoDataWarning)
        /\ fig.is_none
        /\ ~ChartRendered
        /\ ~ErrorShown

C7_Witness ==
    /\ pc = "done"
    /\ data.rows # <<>>
    /\ filtered_data.rows = <<>>
    /\ plot_type = "Line"
    /\ y_col = None
    /\ Shown(NoDataWarning)

(***************************************************************************)
(* C8.  With rows left and y unset, a chart is built exactly for Histogram *)
(* and Box; Line, Scatter and Bar show the missing-axis message and build  *)
(* and render nothing; the run goes on to the rest of the page.            *)
(***************************************************************************)
C8_MissingAxis ==
    (PlotSectionRan /\ filtered_data.rows # <<>> /\ y_col = None) =>
        /\ ~fig.is_none <=> plot_type \in {"Histogram", "Box"}
        /\ ~fig.is_none <=> ChartRendered
        /\ plot_type \in {"Line", "Scatter", "Bar"} <=> Shown(MissingY)
        /\ ~Shown(NoDataWarning)
        /\ pc = "done" => Shown("expander:MATLAB code")

C8_Witness ==
    /\ pc = "done"
    /\ filtered_data.rows # <<>>
    /\ y_col = None
    /\ plot_type = "Scatter"
    /\ Shown(MissingY)
    /\ fig.is_none
    /\ Shown("expander:MATLAB code")
=============================================================================
